---- MODULE Spec2Model ----
(***************************************************************************)
(* A model of lib/streamdeck.py: the StreamDeck controller of a 15-key     *)
(* USB-HID panel.  The display side (key_remap, display_icon,              *)
(* display_update, display_clear, the display_status mirror and the two    *)
(* module-level header lists), the button side (button_getch,              *)
(* button_empty, button_listen_key, button_listen_count over the device's  *)
(* buffer of input reports) and the object's life cycle (__enter__ and     *)
(* __exit__).                                                              *)
(*                                                                         *)
(* Conventions.  A Python list is a TLA+ sequence; ListGet and ListSet     *)
(* take Python's 0-based index.  A key argument is tagged with its Python  *)
(* type (IntKey, TupleKey), since the code branches on isinstance.  An     *)
(* image is modelled by its size and by what it was made from (px), never  *)
(* by 5184 pixel values; a device message is its header list and the       *)
(* slice [from, to) of the image's BGR byte array that follows the header. *)
(* A call is evaluated on a record st holding the mutable state it can     *)
(* touch; a raised exception is st.exc, and every later statement of the   *)
(* call is skipped once it is set.                                         *)
(***************************************************************************)
EXTENDS Integers, Sequences, FiniteSets, TLC

VARIABLES
    display_status,   \* self.display_status: label / contents / ico, each a dict over keys
    HEADER_PAGE1,     \* the module-level list, mutated in place by display_icon
    HEADER_PAGE2,     \* the module-level list, mutated in place by display_icon
    BRIGHTNESS_DATA,  \* the module-level list, mutated in place by set_brightness
    devlog,           \* what the last call sent to the device, in order
    call,             \* the last call: the operation and its arguments
    ret,              \* the last call's outcome: returned value or raised exception
    lastUpdate,       \* history: per key, the icon of the latest display_update resolving to it
    screen,           \* hardware, where observed: per key slot, the image shown since the last reset
    ctx,              \* life cycle of the StreamDeck object
    closeCount,       \* number of device.close() calls so far
    held,             \* hardware: the key positions held down right now
    inbuf,            \* hardware: the input reports buffered and not yet read
    pc,               \* where the running button call stands ("idle" when none runs)
    frame             \* the running button call's arguments and locals

vars == <<display_status, HEADER_PAGE1, HEADER_PAGE2, BRIGHTNESS_DATA, devlog, call,
          ret, lastUpdate, screen, ctx, closeCount, held, inbuf, pc, frame>>

displayVars == <<display_status, HEADER_PAGE1, HEADER_PAGE2, BRIGHTNESS_DATA, devlog,
                 lastUpdate, screen>>
buttonVars == <<held, inbuf, pc, frame>>
lifeVars == <<ctx, closeCount>>

(***************************************************************************)
(* Module constants                                                        *)
(***************************************************************************)
NUM_KEYS == 15
NUM_ROWS == 3
NUM_KEYS_ROW == 5
ICON_SIZE == <<72, 72>>
NUM_TOTAL_PIXELS == ICON_SIZE[1] * ICON_SIZE[2]
NUM_PAGE1_PIXELS == 2583
NUM_PAGE2_PIXELS == NUM_TOTAL_PIXELS - NUM_PAGE1_PIXELS

RESET_DATA == <<11, 99, 0, 0, 0, 0, 0, 0, 0, 0, 0, 0, 0, 0, 0, 0, 0>>
BRIGHTNESS_DATA_INIT == <<5, 85, 170, 209, 1, 10, 0, 0, 0, 0, 0, 0, 0, 0, 0, 0, 0>>

HEADER_PAGE1_INIT ==
    <<2, 1, 1, 0, 0, 0, 0, 0, 0, 0, 0, 0, 0, 0, 0, 0, 66, 77, 246,
      60, 0, 0, 0, 0, 0, 0, 54, 0, 0, 0, 40, 0, 0, 0, 72, 0, 0, 0,
      72, 0, 0, 0, 1, 0, 24, 0, 0, 0, 0, 0, 192, 60, 0, 0, 196, 14,
      0, 0, 196, 14, 0, 0, 0, 0, 0, 0, 0, 0, 0, 0>>

HEADER_PAGE2_INIT == <<2, 1, 2, 0, 1, 0, 0, 0, 0, 0, 0, 0, 0, 0, 0, 0>>

\* The names the module's import statements bind.
Imports == {"sys", "os", "np", "hid", "Image", "ImageDraw", "ImageFont"}

(***************************************************************************)
(* Python lists and keys                                                   *)
(***************************************************************************)
ListGet(l, i) == l[i + 1]
ListSet(l, i, v) == [l EXCEPT ![i + 1] = v]

IntKey(n) == [t |-> "int", v |-> <<n>>]
TupleKey(r, c) == [t |-> "tuple", v |-> <<r, c>>]

\* d[k] = v on a Python dict: the key is created when it is not there.
DictSet(d, k, v) == [x \in (DOMAIN d) \cup {k} |-> IF x = k THEN v ELSE d[x]]

(***************************************************************************)
(* Images and icons                                                        *)
(***************************************************************************)
NoPx == [src |-> "_", arg |-> "_", over |-> "_"]
\* The string '_' that __init__ stores as the ico of every key.
StrBlank == [kind |-> "str", size |-> <<0, 0>>, px |-> NoPx, flipped |-> FALSE]
NewImage(size, px) == [kind |-> "image", size |-> size, px |-> px, flipped |-> FALSE]

Max(a, b) == IF a >= b THEN a ELSE b

\* Image.thumbnail(size): shrinks in place to fit within size, keeping the
\* aspect ratio; an image already within size is left as it is.
thumbnail(im, size) ==
    LET w == im.size[1]
        h == im.size[2]
    IN  IF w <= size[1] /\ h <= size[2] THEN im
        ELSE IF w * size[2] >= h * size[1]
             THEN [im EXCEPT !.size = <<size[1], Max(1, (size[1] * h) \div w)>>]
             ELSE [im EXCEPT !.size = <<Max(1, (size[2] * w) \div h), size[2]>>]

\* The PNG files of the icons folder: name -> (width, height).
FileNames == {"logo", "small", "wide", "key"}
FileSize(filename) ==
    CASE filename = "logo" -> <<144, 144>>
      [] filename = "small" -> <<36, 36>>
      [] filename = "wide" -> <<144, 72>>
      [] OTHER -> <<72, 72>>

Icon_solid(col) ==
    [ico |-> NewImage(ICON_SIZE, [src |-> "solid", arg |-> col, over |-> "_"]),
     label |-> "solid", contents |-> col]

Icon_prep(filename, pad) ==
    LET opened == NewImage(FileSize(filename),
                           [src |-> "file", arg |-> filename, over |-> "_"])
        padded == IF pad # 0
                  THEN [opened EXCEPT !.size = <<opened.size[1] + pad, opened.size[2] + pad>>]
                  ELSE opened
    IN  [ico |-> thumbnail(padded, ICON_SIZE), label |-> "image", contents |-> filename]

\* Icon.key_blank: solid() with label and contents overwritten.
key_blank == [Icon_solid("000000") EXCEPT !.label = "_", !.contents = "_"]

\* ico=None
NoneIcon == [ico |-> StrBlank, label |-> "None", contents |-> "None"]

Icon_text(text, ico, back) ==
    LET under == IF back # "000000" THEN Icon_solid(back)
                 ELSE IF ico = NoneIcon THEN key_blank
                 ELSE ico
        base == under.ico
    IN  [ico |-> NewImage(base.size, [src |-> "text", arg |-> text, over |-> base.px.arg]),
         label |-> "text", contents |-> text]

(***************************************************************************)
(* The device: feature reports and writes, in the order they are sent      *)
(***************************************************************************)
Feature(data) == [type |-> "feature", header |-> data, from |-> 0, to |-> 0, img |-> StrBlank]
Message(header, from, to, img) ==
    [type |-> "write", header |-> header, from |-> from, to |-> to, img |-> img]
MsgLen(m) == Len(m.header) + (m.to - m.from)

Writes(log) == SelectSeq(log, LAMBDA e : e.type = "write")

Raise(st, e) == IF st.exc = "none" THEN [st EXCEPT !.exc = e] ELSE st

\* The panel on a feature report: RESET_DATA blanks every key, any other report
\* leaves what is shown.
send_feature_report(st, data) ==
    IF st.exc # "none" THEN st
    ELSE [st EXCEPT !.log = Append(@, Feature(data)),
                    !.hw.shown = IF data = RESET_DATA THEN <<>> ELSE @]

\* device.write(msg).  st.failAt names the write of this call (1 = its first) the
\* transport fails on; 0 when no write fails.
\* The panel shows an image on the key slot of header[5] once the page flagged as
\* the last one (header[4] = 1) has arrived.
device_write(st, msg) ==
    IF st.exc # "none" THEN st
    ELSE IF Len(Writes(st.log)) + 1 = st.failAt THEN Raise(st, "IOError")
    ELSE [st EXCEPT !.log = Append(@, msg),
                    !.hw.shown = IF st.hw.on /\ ListGet(msg.header, 4) = 1
                                 THEN DictSet(@, ListGet(msg.header, 5), msg.img)
                                 ELSE @]

(***************************************************************************)
(* Basic device interaction: reset, set_brightness, key_remap              *)
(***************************************************************************)
reset(st) == send_feature_report(st, RESET_DATA)

set_brightness(st, bright) ==
    LET st1 == [st EXCEPT !.bd = ListSet(@, 5, bright)]
    IN  send_feature_report(st1, st1.bd)

key_remap_int(n) ==
    (((n - 1) \div NUM_KEYS_ROW) * NUM_KEYS_ROW) + (NUM_KEYS_ROW - ((n - 1) % NUM_KEYS_ROW))

\* key_remap with key in place of key-1 in the column term.
key_remap_column_shifted(key) ==
    LET n == IF key.t = "int" THEN key.v[1] ELSE (key.v[1] - 1) * NUM_KEYS_ROW + key.v[2]
    IN  (((n - 1) \div NUM_KEYS_ROW) * NUM_KEYS_ROW) + (NUM_KEYS_ROW - (n % NUM_KEYS_ROW))

key_remap(key) ==
    IF key.t = "int" THEN key_remap_int(key.v[1])
    ELSE key_remap_int((key.v[1] - 1) * NUM_KEYS_ROW + key.v[2])

(***************************************************************************)
(* Key display functions: display_icon, display_update, display_clear      *)
(***************************************************************************)
\* display_icon without header[5] = key on the second page.
display_icon_stale_slot(st, key, icon, remap) ==
    IF st.exc # "none" THEN st
    ELSE
    LET ico == [icon.ico EXCEPT !.flipped = ~@]
    IN  IF ico.size[1] * ico.size[2] < NUM_TOTAL_PIXELS THEN Raise(st, "IndexError")
        ELSE
        LET k == IF remap THEN key_remap(key) ELSE key.v[1]
            st1 == [st EXCEPT !.h1 = ListSet(@, 5, k)]
            st2 == device_write(st1, Message(st1.h1, 0, NUM_PAGE1_PIXELS * 3, ico))
        IN  device_write(st2, Message(st2.h2, NUM_PAGE1_PIXELS * 3,
                                      NUM_TOTAL_PIXELS * 3, ico))

\* display_icon recording the icon under the key it pushes to.
display_icon_recorded(st, key, icon, remap) ==
    IF st.exc # "none" THEN st
    ELSE
    LET ico == [icon.ico EXCEPT !.flipped = ~@]
    IN  IF ico.size[1] * ico.size[2] < NUM_TOTAL_PIXELS THEN Raise(st, "IndexError")
        ELSE
        LET k == IF remap THEN key_remap(key) ELSE key.v[1]
            st1 == [st EXCEPT !.h1 = ListSet(@, 5, k),
                              !.ds = [label |-> DictSet(@.label, k, icon.label),
                                      contents |-> DictSet(@.contents, k, icon.contents),
                                      ico |-> DictSet(@.ico, k, icon.ico)]]
            st2 == device_write(st1, Message(st1.h1, 0, NUM_PAGE1_PIXELS * 3, ico))
        IN  IF st2.exc # "none" THEN st2
            ELSE
            LET st3 == [st2 EXCEPT !.h2 = ListSet(@, 5, k)]
            IN  device_write(st3, Message(st3.h2, NUM_PAGE1_PIXELS * 3,
                                          NUM_TOTAL_PIXELS * 3, ico))

\* The loop of display_icon reads icobuffer[pixel] for every pixel below
\* NUM_TOTAL_PIXELS, and icobuffer has one entry per pixel of the image.
display_icon(st, key, icon, remap) ==
    IF st.exc # "none" THEN st
    ELSE
    LET ico == [icon.ico EXCEPT !.flipped = ~@]
    IN  IF ico.size[1] * ico.size[2] < NUM_TOTAL_PIXELS THEN Raise(st, "IndexError")
        ELSE
        LET k == IF remap THEN key_remap(key) ELSE key.v[1]
            st1 == [st EXCEPT !.h1 = ListSet(@, 5, k)]
            st2 == device_write(st1, Message(st1.h1, 0, NUM_PAGE1_PIXELS * 3, ico))
        IN  IF st2.exc # "none" THEN st2
            ELSE
            LET st3 == [st2 EXCEPT !.h2 = ListSet(@, 5, k)]
            IN  device_write(st3, Message(st3.h2, NUM_PAGE1_PIXELS * 3,
                                          NUM_TOTAL_PIXELS * 3, ico))

\* display_update recording the icon in display_status only when it pushes.
display_update_push_only(st, key, icon, display) ==
    IF st.exc # "none" THEN st
    ELSE
    LET k1 == IF key.t = "tuple" THEN key_remap(IntKey(key_remap(key))) ELSE key.v[1]
        st0 == [st EXCEPT !.hist = DictSet(@, k1, icon)]
        st1 == [st0 EXCEPT !.ds = [label |-> DictSet(@.label, k1, icon.label),
                                   contents |-> DictSet(@.contents, k1, icon.contents),
                                   ico |-> DictSet(@.ico, k1, icon.ico)]]
        k2 == key_remap(IntKey(k1))
    IN  IF display THEN display_icon(st1, IntKey(k2), icon, FALSE) ELSE st0

\* display_update remapping a (row, column) key once instead of twice.
display_update_single_remap(st, key, icon, display) ==
    IF st.exc # "none" THEN st
    ELSE
    LET k1 == IF key.t = "tuple" THEN key_remap(key) ELSE key.v[1]
        st1 == [st EXCEPT !.ds = [label |-> DictSet(@.label, k1, icon.label),
                                  contents |-> DictSet(@.contents, k1, icon.contents),
                                  ico |-> DictSet(@.ico, k1, icon.ico)],
                          !.hist = DictSet(@, k1, icon)]
        k2 == key_remap(IntKey(k1))
    IN  IF display THEN display_icon(st1, IntKey(k2), icon, FALSE) ELSE st1

\* display_update pushing first and recording the icon only once the push is done.
display_update_after_push(st, key, icon, display) ==
    IF st.exc # "none" THEN st
    ELSE
    LET k1 == IF key.t = "tuple" THEN key_remap(IntKey(key_remap(key))) ELSE key.v[1]
        k2 == key_remap(IntKey(k1))
        st1 == IF display THEN display_icon(st, IntKey(k2), icon, FALSE) ELSE st
    IN  IF st1.exc # "none" THEN st1
        ELSE [st1 EXCEPT !.ds = [label |-> DictSet(@.label, k1, icon.label),
                                 contents |-> DictSet(@.contents, k1, icon.contents),
                                 ico |-> DictSet(@.ico, k1, icon.ico)],
                         !.hist = DictSet(@, k1, icon)]

display_update(st, key, icon, display) ==
    IF st.exc # "none" THEN st
    ELSE
    LET k1 == IF key.t = "tuple" THEN key_remap(IntKey(key_remap(key))) ELSE key.v[1]
        st1 == [st EXCEPT !.ds = [label |-> DictSet(@.label, k1, icon.label),
                                  contents |-> DictSet(@.contents, k1, icon.contents),
                                  ico |-> DictSet(@.ico, k1, icon.ico)],
                          !.hist = DictSet(@, k1, icon)]
        k2 == key_remap(IntKey(k1))
    IN  IF display THEN display_icon(st1, IntKey(k2), icon, FALSE) ELSE st1

RECURSIVE update_each(_, _, _, _)
\* for k in keys: self.display_update(k, icon, display)
update_each(st, keys, icon, display) ==
    IF keys = <<>> THEN st
    ELSE update_each(display_update(st, Head(keys), icon, display), Tail(keys), icon, display)

\* The keys argument of display_clear: the string 'all', one int, a list of ints,
\* one (row, column) tuple or a list of tuples; items holds the key or keys.
AllKeys == [form |-> "all", items |-> <<>>]
OneKey(k) == [form |-> "one", items |-> <<k>>]
KeyList(ks) == [form |-> "list", items |-> ks]

\* display_clear from "if not rc:" on: both branches wrap a single key into a
\* tuple and update each key to the blank icon, pushing it.
display_clear_keys(st, keys, rc) == update_each(st, keys.items, key_blank, TRUE)

RangeKeys(a, b) == [i \in 1..(b - a) |-> IntKey(a + i - 1)]

\* display_clear without the display_clear(1) that follows the reset.
display_clear_reset_only(st, keys, rc) ==
    IF keys.form = "all"
    THEN update_each(reset(st), RangeKeys(1, 16), key_blank, FALSE)
    ELSE display_clear_keys(st, keys, rc)

\* display_clear leaving display_status to the reset: no loop over the keys.
display_clear_no_mirror(st, keys, rc) ==
    IF keys.form = "all"
    THEN display_clear_keys(reset(st), OneKey(IntKey(1)), FALSE)
    ELSE display_clear_keys(st, keys, rc)

display_clear(st, keys, rc) ==
    IF keys.form = "all"
    THEN LET st1 == reset(st)
             st2 == display_clear_keys(st1, OneKey(IntKey(1)), FALSE)
         IN  update_each(st2, RangeKeys(1, 16), key_blank, FALSE)
    ELSE display_clear_keys(st, keys, rc)

(***************************************************************************)
(* Calls: the state a call starts from, and what it leaves behind          *)
(***************************************************************************)
Start(fail) ==
    [ds |-> display_status, h1 |-> HEADER_PAGE1, h2 |-> HEADER_PAGE2,
     bd |-> BRIGHTNESS_DATA, hist |-> lastUpdate, hw |-> screen, log |-> <<>>,
     exc |-> "none", failAt |-> fail]

NoCall ==
    [op |-> "none", key |-> IntKey(0), icon |-> NoneIcon, display |-> FALSE,
     remap |-> FALSE, keys |-> AllKeys, rc |-> FALSE, n |-> 0, fail |-> 0]

\* val: the int returned (0 for None); list: the list returned.
NoRet == [status |-> "none", exc |-> "none", val |-> 0, list |-> <<>>]
Returned(v, l) == [status |-> "returned", exc |-> "none", val |-> v, list |-> l]
Raised(e) == [status |-> "raised", exc |-> e, val |-> 0, list |-> <<>>]

\* A display call runs to its end in one step: it reads no input report.
Commit(st, c, v) ==
    /\ display_status' = st.ds
    /\ HEADER_PAGE1' = st.h1
    /\ HEADER_PAGE2' = st.h2
    /\ BRIGHTNESS_DATA' = st.bd
    /\ lastUpdate' = st.hist
    /\ screen' = st.hw
    /\ devlog' = st.log
    /\ call' = c
    /\ ret' = IF st.exc = "none" THEN Returned(v, <<>>) ELSE Raised(st.exc)

\* The object is in use: constructed, its with-block (if any) not left, its device open.
Usable == ctx \in {"constructed", "in_with"} /\ closeCount = 0
Idle == pc = "idle"

(***************************************************************************)
(* Inputs                                                                  *)
(***************************************************************************)
\* Writes of one call that the transport may fail on: none, the first or the second.
MaxFail == 2

Colours == {"ff0000", "000000"}
Pads == {0, 8}
Texts == {"A"}
SolidIcons == {Icon_solid(c) : c \in Colours}
PrepIcons == {Icon_prep(f, p) : f \in FileNames, p \in Pads}
\* Everything the three builders return: text over nothing, over a built icon, or
\* over a fresh background.
BuilderIcons ==
    SolidIcons \cup PrepIcons
    \cup {Icon_text(t, i, b) : t \in Texts, b \in Colours,
                               i \in {NoneIcon, Icon_solid("ff0000"), Icon_prep("small", 0)}}

UpdateIcons == {Icon_solid("ff0000"), Icon_prep("small", 0), Icon_text("A", NoneIcon, "000000")}
UpdateKeys == {IntKey(2), IntKey(16), TupleKey(1, 2), TupleKey(4, 1)}
ClearKeys == {AllKeys, OneKey(IntKey(2)), KeyList(<<IntKey(2), IntKey(7)>>)}
ClearKeysRC == {AllKeys, OneKey(TupleKey(2, 2)), KeyList(<<TupleKey(1, 2), TupleKey(2, 2)>>)}
IconKeys == {IntKey(2), TupleKey(2, 2)}
RemapKeys ==
    {IntKey(k) : k \in 1..(NUM_KEYS + 1)}
    \cup {TupleKey(r, c) : r \in 1..NUM_ROWS, c \in 1..NUM_KEYS_ROW}
Brights == {10, 60}

(***************************************************************************)
(* The hardware's input reports                                            *)
(***************************************************************************)
MaxBuf == 3
MaxHeld == 2
MaxCount == 2
\* Physical positions the user presses: logical keys 2, 7 and 12.
PressKeys == {4, 9, 14}
Timeouts == {0, 100}
\* button_empty(self, timeout=5), and no caller passes another value.
EmptyTimeout == 5
ListenKeys == {OneKey(IntKey(7)), KeyList(<<IntKey(7), IntKey(12)>>)}
ListenKeysRC == {OneKey(TupleKey(2, 2))}

\* One input report: NUM_KEYS+1 bytes, the report id 1 and then one byte per key
\* position, 1 while the key is down.
Report(down) ==
    [i \in 1..(NUM_KEYS + 1) |-> IF i = 1 THEN 1 ELSE IF (i - 1) \in down THEN 1 ELSE 0]

RECURSIVE where_eq(_, _, _)
where_eq(state, v, i) ==
    IF i > Len(state) THEN <<>>
    ELSE (IF state[i] = v THEN <<i - 1>> ELSE <<>>) \o where_eq(state, v, i + 1)

\* np.where(np.array(state) == v): a tuple holding one array of indices for each
\* dimension of the array, here one.
np_where(state, v) == <<where_eq(state, v, 1)>>

\* The locals of the running button call.  got, reads and first are history: the
\* keys button_getch has returned to this call, the reports the running
\* button_getch has read, and the first of them.  before and left are history
\* of a call that drains: the reports buffered when it started, and how many of
\* them no read has taken yet.
NoFrame ==
    [op |-> "none", keys |-> AllKeys, rc |-> FALSE, count |-> 0, remap |-> FALSE,
     timeout |-> 0, button |-> 0, count_i |-> 0, key_list |-> <<>>, key |-> 0,
     state |-> <<>>, reads |-> 0, got |-> {}, first |-> <<>>, before |-> 0, left |-> 0]

(***************************************************************************)
(* __init__: the state after construction                                  *)
(***************************************************************************)
\* The panel after a reset: no key shows an image.  What the keys show is
\* recorded where on is set, and left out elsewhere.
Panel(on) == [on |-> on, shown |-> <<>>]

Constructed ==
    /\ display_status = [label |-> [k \in 1..NUM_KEYS |-> "_"],
                         contents |-> [k \in 1..NUM_KEYS |-> "_"],
                         ico |-> [k \in 1..NUM_KEYS |-> StrBlank]]
    /\ HEADER_PAGE1 = HEADER_PAGE1_INIT
    /\ HEADER_PAGE2 = HEADER_PAGE2_INIT
    /\ BRIGHTNESS_DATA = BRIGHTNESS_DATA_INIT
    /\ devlog = <<Feature(RESET_DATA)>>
    /\ call = [NoCall EXCEPT !.op = "__init__"]
    /\ ret = Returned(0, <<>>)
    /\ lastUpdate = <<>>
    /\ ctx = "constructed"
    /\ closeCount = 0
    /\ held = {}
    /\ inbuf = <<>>
    /\ pc = "idle"
    /\ frame = NoFrame

Init == Constructed /\ screen = Panel(FALSE)

\* The same state, with the panel observed.
InitPanel == Constructed /\ screen = Panel(TRUE)

(***************************************************************************)
(* Display operations                                                      *)
(***************************************************************************)
DisplayUpdate ==
    /\ Usable /\ Idle
    /\ \E key \in UpdateKeys, icon \in UpdateIcons, display \in BOOLEAN, fail \in 0..MaxFail :
          /\ (fail # 0 => display)
          /\ Commit(display_update(Start(fail), key, icon, display),
                    [NoCall EXCEPT !.op = "display_update", !.key = key, !.icon = icon,
                                   !.display = display, !.fail = fail], 0)
    /\ UNCHANGED <<lifeVars, buttonVars>>

DisplayClear ==
    /\ Usable /\ Idle
    /\ \E rc \in BOOLEAN, fail \in 0..MaxFail :
          \E keys \in IF rc THEN ClearKeysRC ELSE ClearKeys :
              Commit(display_clear(Start(fail), keys, rc),
                     [NoCall EXCEPT !.op = "display_clear", !.keys = keys, !.rc = rc,
                                    !.fail = fail], 0)
    /\ UNCHANGED <<lifeVars, buttonVars>>

NextDisplay == DisplayUpdate \/ DisplayClear

SpecDisplay == Init /\ [][NextDisplay]_vars

(***************************************************************************)
(* Display calls that push, none of whose writes fails, on an observed     *)
(* panel                                                                   *)
(***************************************************************************)
PushUpdate ==
    /\ Usable /\ Idle
    /\ \E key \in UpdateKeys, icon \in UpdateIcons :
          Commit(display_update(Start(0), key, icon, TRUE),
                 [NoCall EXCEPT !.op = "display_update", !.key = key, !.icon = icon,
                                !.display = TRUE], 0)
    /\ UNCHANGED <<lifeVars, buttonVars>>

PushClear ==
    /\ Usable /\ Idle
    /\ \E rc \in BOOLEAN :
          \E keys \in IF rc THEN ClearKeysRC ELSE ClearKeys :
              Commit(display_clear(Start(0), keys, rc),
                     [NoCall EXCEPT !.op = "display_clear", !.keys = keys, !.rc = rc], 0)
    /\ UNCHANGED <<lifeVars, buttonVars>>

NextPanel == PushUpdate \/ PushClear

SpecPanel == InitPanel /\ [][NextPanel]_vars

(***************************************************************************)
(* Low-level device operations, called directly                            *)
(***************************************************************************)
Reset ==
    /\ Usable /\ Idle
    /\ Commit(reset(Start(0)), [NoCall EXCEPT !.op = "reset"], 0)
    /\ UNCHANGED <<lifeVars, buttonVars>>

SetBrightness ==
    /\ Usable /\ Idle
    /\ \E bright \in Brights :
          Commit(set_brightness(Start(0), bright),
                 [NoCall EXCEPT !.op = "set_brightness", !.n = bright], 0)
    /\ UNCHANGED <<lifeVars, buttonVars>>

KeyRemap ==
    /\ Usable /\ Idle
    /\ \E key \in RemapKeys :
          Commit(Start(0), [NoCall EXCEPT !.op = "key_remap", !.key = key], key_remap(key))
    /\ UNCHANGED <<lifeVars, buttonVars>>

\* remap=False hands the key to the header as it is: an int.
DisplayIcon ==
    /\ Usable /\ Idle
    /\ \E key \in IconKeys, icon \in BuilderIcons, remap \in BOOLEAN, fail \in 0..MaxFail :
          /\ (~remap => key.t = "int")
          /\ Commit(display_icon(Start(fail), key, icon, remap),
                    [NoCall EXCEPT !.op = "display_icon", !.key = key, !.icon = icon,
                                   !.remap = remap, !.fail = fail], 0)
    /\ UNCHANGED <<lifeVars, buttonVars>>

(***************************************************************************)
(* Life cycle: __enter__, __exit__ and the with statement                  *)
(***************************************************************************)
\* def __exit__(self): the parameters after self.
ExitParams == <<>>
\* What a with statement passes to __exit__ when its block is left.
WithExitArgs == <<"exc_type", "exc_value", "traceback">>
MaxClose == 2

\* A call of __exit__ with these arguments: a TypeError before the body runs when
\* their number is not the number of parameters, else device.close().
StreamDeck_exit(args) ==
    IF Len(args) # Len(ExitParams)
    THEN [exc |-> "TypeError", closes |-> 0]
    ELSE [exc |-> "none", closes |-> 1]

ExitOutcome(r, c) ==
    /\ closeCount' = closeCount + r.closes
    /\ call' = c
    /\ ret' = IF r.exc = "none" THEN Returned(0, <<>>) ELSE Raised(r.exc)
    /\ devlog' = <<>>

\* with StreamDeck() as deck: __enter__ returns self.
Enter ==
    /\ ctx = "constructed" /\ Idle /\ closeCount = 0
    /\ ctx' = "in_with"
    /\ call' = [NoCall EXCEPT !.op = "__enter__"]
    /\ ret' = Returned(0, <<>>)
    /\ devlog' = <<>>
    /\ UNCHANGED <<display_status, HEADER_PAGE1, HEADER_PAGE2, BRIGHTNESS_DATA, lastUpdate,
                   screen, closeCount, buttonVars>>

\* The with-block is left: at its end, or by the exception the last call raised.
LeaveWith ==
    /\ ctx = "in_with" /\ Idle
    /\ \E reason \in {"normal", "exception"} :
          /\ (reason = "exception" => ret.status = "raised")
          /\ ExitOutcome(StreamDeck_exit(WithExitArgs),
                         [NoCall EXCEPT !.op = "with_exit",
                                        !.n = IF reason = "exception" THEN 1 ELSE 0])
    /\ ctx' = "left"
    /\ UNCHANGED <<display_status, HEADER_PAGE1, HEADER_PAGE2, BRIGHTNESS_DATA, lastUpdate,
                   screen, buttonVars>>

\* deck.__exit__() called as a method, with no argument.
ExitCall ==
    /\ ctx \in {"constructed", "in_with"} /\ Idle
    /\ closeCount < MaxClose
    /\ ExitOutcome(StreamDeck_exit(<<>>), [NoCall EXCEPT !.op = "__exit__"])
    /\ UNCHANGED <<display_status, HEADER_PAGE1, HEADER_PAGE2, BRIGHTNESS_DATA, lastUpdate,
                   screen, ctx, buttonVars>>

NextDevice ==
    \/ Reset \/ SetBrightness \/ KeyRemap \/ DisplayIcon
    \/ Enter \/ LeaveWith \/ ExitCall

SpecDevice == Init /\ [][NextDevice]_vars

(***************************************************************************)
(* The user at the panel: every change of the keys held down is reported   *)
(***************************************************************************)
Press ==
    /\ Len(inbuf) < MaxBuf /\ Cardinality(held) < MaxHeld
    /\ \E p \in PressKeys \ held :
          /\ held' = held \cup {p}
          /\ inbuf' = Append(inbuf, Report(held \cup {p}))
    /\ UNCHANGED <<displayVars, lifeVars, call, ret, pc, frame>>

Release ==
    /\ Len(inbuf) < MaxBuf
    /\ \E p \in held :
          /\ held' = held \ {p}
          /\ inbuf' = Append(inbuf, Report(held \ {p}))
    /\ UNCHANGED <<displayVars, lifeVars, call, ret, pc, frame>>

(***************************************************************************)
(* Key button functions: button_getch, button_empty, button_listen_key,    *)
(* button_listen_count.  A call stands at pc while it waits for a report.  *)
(***************************************************************************)
\* button in keys, keys a tuple of ints
InKeys(button, keys) == \E i \in 1..Len(keys.items) : keys.items[i] = IntKey(button)

BeginCall(c, f, at) ==
    /\ call' = c
    /\ frame' = f
    /\ ret' = NoRet
    /\ devlog' = <<>>
    /\ pc' = at
    /\ UNCHANGED <<display_status, HEADER_PAGE1, HEADER_PAGE2, BRIGHTNESS_DATA, lastUpdate,
                   screen, lifeVars, held, inbuf>>

\* device.read(length, timeout_ms): with timeout_ms = 0, which is what a call
\* without the argument passes, the read blocks until a report is there; with
\* timeout_ms > 0 it ends after that time and returns an empty list when no
\* report has arrived.
ReadReady(timeout_ms) == inbuf # <<>> \/ timeout_ms > 0
ReadResult == IF inbuf # <<>> THEN Head(inbuf) ELSE <<>>
ReadRest == IF inbuf # <<>> THEN Tail(inbuf) ELSE inbuf

\* The locals once a read has ended: a report it took is one left less.
Taken(f) == [f EXCEPT !.left = IF ReadResult # <<>> /\ @ > 0 THEN @ - 1 ELSE @]

\* The call ends: r is what it returns or raises, f its locals at that point.
EndCall(r, f) ==
    /\ pc' = "idle"
    /\ ret' = r
    /\ frame' = f

\* The timeout argument is not handed to device.read.
ButtonGetch ==
    /\ Usable /\ Idle
    /\ \E remap \in BOOLEAN, timeout \in Timeouts :
        BeginCall([NoCall EXCEPT !.op = "button_getch", !.remap = remap, !.n = timeout],
                  [NoFrame EXCEPT !.op = "button_getch", !.remap = remap,
                                  !.timeout = timeout],
                  "getch_press")

ButtonEmpty ==
    /\ Usable /\ Idle
    /\ BeginCall([NoCall EXCEPT !.op = "button_empty"],
              [NoFrame EXCEPT !.op = "button_empty", !.before = Len(inbuf),
                              !.left = Len(inbuf)], "empty")

ButtonListenKey ==
    /\ Usable /\ Idle
    /\ \E rc \in BOOLEAN :
        \E keys \in IF rc THEN ListenKeysRC ELSE ListenKeys :
            BeginCall([NoCall EXCEPT !.op = "button_listen_key", !.keys = keys, !.rc = rc],
                      [NoFrame EXCEPT !.op = "button_listen_key", !.keys = keys, !.rc = rc,
                                      !.remap = TRUE, !.before = Len(inbuf),
                                      !.left = Len(inbuf)],
                      "empty")

ButtonListenCount ==
    /\ Usable /\ Idle
    /\ \E count \in 0..MaxCount :
        BeginCall([NoCall EXCEPT !.op = "button_listen_count", !.n = count],
                  [NoFrame EXCEPT !.op = "button_listen_count", !.count = count,
                                  !.remap = TRUE, !.before = Len(inbuf),
                                  !.left = Len(inbuf)],
                  "empty")

\* What follows button_empty() in the caller, up to its first read or its end.
AfterEmpty(f) ==
    CASE f.op = "button_listen_key" ->
            \* button = 0, then the branch on rc
            IF ~f.rc /\ ~InKeys(0, f.keys)
            THEN /\ pc' = "getch_press"
                 /\ frame' = [f EXCEPT !.button = 0]
                 /\ ret' = ret
            ELSE EndCall(Returned(0, <<>>), [f EXCEPT !.button = 0])
      [] f.op = "button_listen_count" ->
            \* time_start = time.time()
            IF "time" \notin Imports
            THEN EndCall(Raised("NameError"), f)
            ELSE IF 0 < f.count
            THEN /\ pc' = "getch_press"
                 /\ frame' = [f EXCEPT !.count_i = 0, !.key_list = <<>>]
                 /\ ret' = ret
            ELSE EndCall(Returned(0, <<>>), [f EXCEPT !.count_i = 0, !.key_list = <<>>])
      [] OTHER -> EndCall(Returned(0, <<>>), f)

\* button_empty with if in place of while: one timed read.
EmptyRead_once ==
    /\ pc = "empty"
    /\ ReadReady(EmptyTimeout)
    /\ inbuf' = ReadRest
    /\ AfterEmpty(Taken(frame))
    /\ UNCHANGED <<displayVars, lifeVars, call, held>>

\* One turn of button_empty's loop: state = device.read(NUM_KEYS+1, timeout_ms=timeout).
\* A buffered report is read and dropped; with none buffered the read times out,
\* returns an empty list, and the loop ends.
EmptyRead ==
    /\ pc = "empty"
    /\ ReadReady(EmptyTimeout)
    /\ inbuf' = ReadRest
    /\ IF ReadResult # <<>>
       THEN /\ frame' = Taken(frame)
            /\ UNCHANGED <<pc, ret>>
       ELSE AfterEmpty(Taken(frame))
    /\ UNCHANGED <<displayVars, lifeVars, call, held>>

\* button_getch up to its second read: the first report, the key taken from
\* it, the remap.  The read is device.read(NUM_KEYS+1), without timeout_ms.
GetchPress ==
    /\ pc = "getch_press"
    /\ ReadReady(0)
    /\ inbuf' = ReadRest
    /\ LET state == ReadResult
           key == np_where(state, 1)
           f == [Taken(frame) EXCEPT !.state = state, !.reads = 1, !.first = state]
       IN  IF Len(key[1]) < 2
           THEN EndCall(Raised("IndexError"), f)
           ELSE /\ pc' = "getch_release"
                /\ frame' = [f EXCEPT !.key = IF frame.remap
                                              THEN key_remap(IntKey(ListGet(key[1], 1)))
                                              ELSE ListGet(key[1], 1)]
                /\ ret' = ret
    /\ UNCHANGED <<displayVars, lifeVars, call, held>>

\* What follows button = self.button_getch() in the caller.
AfterGetch(f) ==
    CASE f.op = "button_listen_key" ->
            LET f1 == [f EXCEPT !.button = f.key, !.got = @ \cup {f.key}]
            IN  IF InKeys(f1.button, f1.keys)
                THEN EndCall(Returned(f1.button, <<>>), f1)
                ELSE /\ pc' = "getch_press"
                     /\ frame' = f1
                     /\ ret' = ret
      [] f.op = "button_listen_count" ->
            LET f1 == [f EXCEPT !.button = f.key, !.got = @ \cup {f.key},
                                !.key_list = Append(@, f.key), !.count_i = @ + 1]
            IN  IF f1.count_i < f1.count
                THEN /\ pc' = "getch_press"
                     /\ frame' = f1
                     /\ ret' = ret
                ELSE EndCall(Returned(0, f1.key_list), f1)
      [] OTHER -> EndCall(Returned(f.key, <<>>), f)

\* button_getch from its second read on: the release report and the check of it.
GetchRelease ==
    /\ pc = "getch_release"
    /\ ReadReady(0)
    /\ inbuf' = ReadRest
    /\ LET state == ReadResult
           f == [Taken(frame) EXCEPT !.state = state, !.reads = 2]
       IN  IF Len(np_where(state, 1)) > 1
           THEN EndCall(Raised("ValueError"), f)
           ELSE AfterGetch(f)
    /\ UNCHANGED <<displayVars, lifeVars, call, held>>

NextButton ==
    \/ Press \/ Release
    \/ ButtonGetch \/ ButtonEmpty \/ ButtonListenKey \/ ButtonListenCount
    \/ EmptyRead \/ GetchPress \/ GetchRelease

SpecButton == Init /\ [][NextButton]_vars

\* The program is single-threaded and a timed read ends within its timeout: the
\* loop of button_empty takes its next turn.
SpecButtonFair == Init /\ [][NextButton]_vars /\ WF_vars(EmptyRead)

(***************************************************************************)
(* Display, device and button calls on one object, over a few inputs       *)
(***************************************************************************)
\* Reports buffered at most, with one key in use: position 9, logical key 7.
FrameBuf == 1

\* The inputs of the calls and of the user that this specification covers.
FrameScope ==
    /\ call.fail = 0
    /\ call.icon \in {NoneIcon, Icon_solid("ff0000"), Icon_text("A", NoneIcon, "000000")}
    /\ call.key \in {IntKey(0), IntKey(2), TupleKey(1, 2)}
    /\ call.n \in {0, 10}
    /\ Len(inbuf) <= FrameBuf
    /\ held \subseteq {9}

NextFrame ==
    \/ DisplayUpdate /\ FrameScope'
    \/ Reset /\ FrameScope'
    \/ SetBrightness /\ FrameScope'
    \/ KeyRemap /\ FrameScope'
    \/ DisplayIcon /\ FrameScope'
    \/ Press /\ FrameScope'
    \/ Release /\ FrameScope'
    \/ ButtonGetch /\ FrameScope'
    \/ ButtonEmpty /\ FrameScope'
    \/ ButtonListenKey /\ FrameScope'
    \/ ButtonListenCount /\ FrameScope'
    \/ EmptyRead /\ FrameScope'
    \/ GetchPress /\ FrameScope'
    \/ GetchRelease /\ FrameScope'

SpecFrame == Init /\ [][NextFrame]_vars

Next == NextDisplay \/ NextDevice \/ NextButton

Spec == Init /\ [][Next]_vars

(***************************************************************************)
(* Properties                                                              *)
(***************************************************************************)
\* The logical index a key argument stands for: row-major for (row, column).
LogicalIndex(key) ==
    IF key.t = "tuple" THEN (key.v[1] - 1) * 5 + key.v[2] ELSE key.v[1]

MirrorEntry(k) ==
    [label |-> display_status.label[k], contents |-> display_status.contents[k],
     ico |-> display_status.ico[k]]

IsPrefix(a, b) == Len(a) <= Len(b) /\ \A i \in 1..Len(a) : a[i] = b[i]

\* C1: for every logical key 1..15, the mirror's label, contents and ico are those
\* of the icon given to the latest display_update that resolved to that key,
\* whether that call pushed to the device or not.
C1_MirrorIsLatestUpdate ==
    \A k \in 1..NUM_KEYS :
        k \in DOMAIN lastUpdate =>
            /\ k \in DOMAIN display_status.label
            /\ MirrorEntry(k) = [label |-> lastUpdate[k].label,
                                 contents |-> lastUpdate[k].contents,
                                 ico |-> lastUpdate[k].ico]

\* C1 witness: a display_update(2, solid red, display=False) has just returned and
\* key 2 of the mirror shows that icon.
C1_Witness ==
    /\ call.op = "display_update" /\ ~call.display /\ call.key = IntKey(2)
    /\ call.icon = Icon_solid("ff0000")
    /\ MirrorEntry(2) = Icon_solid("ff0000")

\* C2 as claimed: display_clear('all') sends the reset and, with no write failing,
\* returns having written no icon payload to the device and with every key 1..15
\* blank in the mirror.
C2_ClearAllWritesNoIcon ==
    (call.op = "display_clear" /\ call.keys = AllKeys /\ call.fail = 0) =>
        /\ ret.status = "returned"
        /\ devlog = <<Feature(RESET_DATA)>>
        /\ \A k \in 1..NUM_KEYS : MirrorEntry(k) = key_blank

\* C2 as amended: display_clear('all') sends one reset, then pushes the blank icon
\* to logical key 1 (two payloads, key slot 5) and writes nothing else; when it
\* returns, every key 1..15 is blank in the mirror.
C2_ClearAllPushesKey1Only ==
    (call.op = "display_clear" /\ call.keys = AllKeys) =>
        /\ devlog # <<>> /\ devlog[1] = Feature(RESET_DATA)
        /\ \A i \in 2..Len(devlog) :
              /\ devlog[i].type = "write"
              /\ ListGet(devlog[i].header, 5) = 5
              /\ devlog[i].img.px = key_blank.ico.px
        /\ Len(devlog) <= 3
        /\ (call.fail = 0 => ret.status = "returned")
        /\ (ret.status = "returned" =>
              /\ Len(devlog) = 3
              /\ \A k \in 1..NUM_KEYS : MirrorEntry(k) = key_blank)

\* C2 witness: a display_clear('all') has returned after a red icon was on key 2.
C2_Witness ==
    /\ call.op = "display_clear" /\ call.keys = AllKeys /\ ret.status = "returned"
    /\ Len(devlog) = 3
    /\ 16 \in DOMAIN display_status.label
    /\ MirrorEntry(2) = key_blank

\* C3: a button_getch whose second report (the release report) shows more than one
\* pressed key position fails with ValueError.
C3_TwoPressedRaises ==
    (call.op = "button_getch" /\ pc = "idle" /\ frame.reads = 2
        /\ Len(where_eq(Tail(frame.state), 1, 1)) > 1) =>
        (ret.status = "raised" /\ ret.exc = "ValueError")

\* C4: button_listen_count(n) returns a list of length n, the keys pressed in
\* order.
C4_ListenCountReturnsN ==
    (call.op = "button_listen_count" /\ pc = "idle") =>
        /\ ret.status = "returned"
        /\ Len(ret.list) = call.n
        /\ ret.list = frame.key_list

\* C5: once the with-block of a StreamDeck is left, device.close() has been called
\* exactly once.
C5_ClosedOnceOnLeave == ctx = "left" => closeCount = 1

\* C6: a display_update whose key resolves outside 1..15, or whose row or column
\* is out of bounds, fails with KeyOutOfRange, creates no mirror entry and writes
\* nothing to the device.
C6_OutOfRangeFails ==
    (call.op = "display_update"
        /\ \/ LogicalIndex(call.key) \notin 1..15
           \/ call.key.t = "tuple" /\ (call.key.v[1] \notin 1..3 \/ call.key.v[2] \notin 1..5)) =>
        /\ ret.status = "raised" /\ ret.exc = "KeyOutOfRange"
        /\ DOMAIN display_status.label = 1..15
        /\ devlog = <<>>

\* The table in key_remap's docstring.
RemapTable == <<5, 4, 3, 2, 1, 10, 9, 8, 7, 6, 15, 14, 13, 12, 11>>

\* C7: for an int key k in 1..15, key_remap(k) is floor((k-1)/5)*5 + (5 - (k-1) mod 5),
\* lies in 1..15 in the same row of five as k, and key_remap of it is k again.
C7_RemapIsRowInvolution ==
    (call.op = "key_remap" /\ call.key.t = "int" /\ call.key.v[1] \in 1..15) =>
        LET k == call.key.v[1]
        IN  /\ ret.val = ((k - 1) \div 5) * 5 + (5 - ((k - 1) % 5))
            /\ ret.val = RemapTable[k]
            /\ ret.val \in 1..15
            /\ (ret.val - 1) \div 5 = (k - 1) \div 5
            /\ key_remap(IntKey(ret.val)) = k

\* C7 witness: key_remap(7) has returned 9.
C7_Witness == call.op = "key_remap" /\ call.key = IntKey(7) /\ ret.val = 9

\* C8: a display_icon of any icon the builders return writes, when no write fails,
\* exactly two messages, of 70 + 2583*3 and 16 + (5184-2583)*3 bytes.
C8_TwoMessagesOfFixedLength ==
    (call.op = "display_icon" /\ call.fail = 0 /\ call.icon \in BuilderIcons) =>
        /\ ret.status = "returned"
        /\ Len(devlog) = 2
        /\ MsgLen(devlog[1]) = 70 + 2583 * 3
        /\ MsgLen(devlog[2]) = 16 + (5184 - 2583) * 3

\* C9: the messages a display_update(key, icon, display=True) writes are page 1
\* then page 2, each its header template with byte 5 set to key_remap of the
\* logical key of this push, whatever was pushed before; both are written when
\* the call returns.
C9_HeadersCarryThisKey ==
    (call.op = "display_update" /\ call.display) =>
        LET slot == key_remap(IntKey(LogicalIndex(call.key)))
        IN  /\ IsPrefix([i \in 1..Len(devlog) |-> devlog[i].header],
                        <<ListSet(HEADER_PAGE1_INIT, 5, slot),
                          ListSet(HEADER_PAGE2_INIT, 5, slot)>>)
            /\ \A i \in 1..Len(devlog) : devlog[i].type = "write"
            /\ (ret.status = "returned" => Len(devlog) = 2)

\* C9 witness: a push to key 2 has written both pages with slot 4, after a push to
\* key 16 left slot 20 in the headers.
C9_Witness ==
    /\ call.op = "display_update" /\ call.display /\ call.key = IntKey(2)
    /\ ret.status = "returned" /\ Len(devlog) = 2
    /\ ListGet(devlog[1].header, 5) = 4 /\ ListGet(devlog[2].header, 5) = 4
    /\ 16 \in DOMAIN lastUpdate /\ lastUpdate[16].label = "solid"

\* C10: whenever button_listen_key returns, with rc False or True, the value it
\* returns is one of keys and is a key button_getch returned during the call.
C10_ListenKeyReturnsMember ==
    (call.op = "button_listen_key" /\ pc = "idle" /\ ret.status = "returned") =>
        /\ InKeys(ret.val, call.keys)
        /\ ret.val \in frame.got

\* C11: after display_clear('all') has returned, whatever was shown before, every
\* key 1..15 has the blank sentinel's label and contents, '_' and '_'.
C11_ClearAllBlanksMirror ==
    (call.op = "display_clear" /\ call.keys = AllKeys /\ ret.status = "returned") =>
        \A k \in 1..NUM_KEYS :
            display_status.label[k] = "_" /\ display_status.contents[k] = "_"

\* C11 witness: display_clear('all') has returned after display_update calls put
\* an icon on key 2 and on key 16; key 2 is blank again.
C11_Witness ==
    /\ call.op = "display_clear" /\ call.keys = AllKeys /\ ret.status = "returned"
    /\ 16 \in DOMAIN lastUpdate /\ display_status.label[16] = "text"
    /\ lastUpdate[2] = key_blank /\ display_status.label[2] = "_"

\* The key positions 1..15 whose byte is 1 in an input report.
Pressed(report) == {p \in 1..NUM_KEYS : report[p + 1] = 1}

\* C12: a button_getch call that has ended has read exactly two reports, and when
\* the first of them has a single 1 among its 15 key bytes, at position p, the
\* call has returned key_remap(p) with remap and p without.
C12_GetchReadsTwoReturnsKey ==
    (call.op = "button_getch" /\ pc = "idle" /\ ret.status # "none") =>
        /\ frame.reads = 2
        /\ \A p \in 1..NUM_KEYS :
              Pressed(frame.first) = {p} =>
                  /\ ret.status = "returned"
                  /\ ret.val = IF call.remap THEN RemapTable[p] ELSE p

\* C13: a button_getch(timeout = t) with t > 0 that waits with no report buffered
\* is not blocked: its read ends by itself once the timeout has elapsed, with no
\* report arriving, so a step of the call is enabled.
C13_TimeoutEndsWait ==
    (call.op = "button_getch" /\ call.n > 0 /\ pc \in {"getch_press", "getch_release"}
        /\ inbuf = <<>>) =>
        ENABLED (GetchPress \/ GetchRelease)

\* C14: after construction and any display_update(display=True) and display_clear
\* calls none of whose writes failed, for every logical key k the image last
\* written to key slot key_remap(k) since the last reset is the mirror's ico of
\* k (flipped for the panel), and where nothing was written since the last reset
\* the mirror's entry of k has the blank sentinel's label and contents.
C14_MirrorMatchesPanel ==
    \A k \in 1..NUM_KEYS :
        IF RemapTable[k] \in DOMAIN screen.shown
        THEN screen.shown[RemapTable[k]] = [display_status.ico[k] EXCEPT !.flipped = ~@]
        ELSE display_status.label[k] = "_" /\ display_status.contents[k] = "_"

\* C15: a button_listen_key or button_listen_count call reads past its drain only
\* once every report buffered before the call started has been taken and dropped
\* by the drain, so no press buffered before the call is returned by it; the drain
\* ends on an empty buffer; and the drain ends unless reports keep arriving.
C15_DrainDiscardsStale ==
    /\ []((frame.op \in {"button_listen_key", "button_listen_count"} /\ pc # "empty")
             => frame.left = 0)
    /\ [][(pc = "empty" /\ pc' # "empty") => (inbuf = <<>> /\ inbuf' = <<>>)]_vars
    /\ (([]<>(pc # "empty")) \/ ([]<><<Press \/ Release>>_vars))

\* C15 witness: button_listen_key started with a press and its release buffered,
\* dropped both, and then returned a key pressed afterwards.
C15_Witness ==
    /\ call.op = "button_listen_key" /\ pc = "idle" /\ ret.status = "returned"
    /\ frame.before >= 2 /\ frame.left = 0
    /\ frame.got # {} /\ ret.val \in frame.got

\* C16: for every row 1..3 and column 1..5, display_update((row, column), icon,
\* display) does what display_update((row-1)*5 + column, icon, display) does from
\* the same state, whichever write fails: the same mirror, headers, writes and
\* outcome.  After such a call the mirror entry set is the one at
\* (row-1)*5 + column and every payload written carries key slot
\* key_remap((row-1)*5 + column).
C16_TupleKeyActsAsIndex ==
    /\ \A row \in 1..NUM_ROWS, column \in 1..NUM_KEYS_ROW :
          \A icon \in UpdateIcons, display \in BOOLEAN :
              display_update(Start(call.fail), TupleKey(row, column), icon, display)
                  = display_update(Start(call.fail),
                                   IntKey((row - 1) * 5 + column), icon, display)
    /\ (call.op = "display_update" /\ call.key.t = "tuple"
            /\ call.key.v[1] \in 1..NUM_ROWS /\ call.key.v[2] \in 1..NUM_KEYS_ROW) =>
          LET k == (call.key.v[1] - 1) * 5 + call.key.v[2]
          IN  /\ MirrorEntry(k) = [label |-> call.icon.label,
                                   contents |-> call.icon.contents,
                                   ico |-> call.icon.ico]
              /\ \A i \in 1..Len(devlog) : ListGet(devlog[i].header, 5) = RemapTable[k]

\* C16 witness: display_update((1, 2), icon, True) has returned after two writes
\* to key slot 4, with the mirror entry of key 2 set.
C16_Witness ==
    /\ call.op = "display_update" /\ call.key = TupleKey(1, 2) /\ call.display
    /\ ret.status = "returned" /\ Len(devlog) = 2
    /\ ListGet(devlog[2].header, 5) = 4
    /\ display_status.label[2] = call.icon.label

\* C17: when a write fails during display_update(key, icon, display=True), on the
\* first or on the second payload, the call raises the failure, no write follows
\* the failed one, and the mirror entry of the key holds the new icon's label,
\* contents and ico.
C17_FailedPushKeepsMirror ==
    (call.op = "display_update" /\ call.display /\ ret.exc = "IOError") =>
        /\ call.fail \in 1..2
        /\ ret.status = "raised"
        /\ Len(devlog) = call.fail - 1
        /\ MirrorEntry(LogicalIndex(call.key)) = [label |-> call.icon.label,
                                                  contents |-> call.icon.contents,
                                                  ico |-> call.icon.ico]

\* C17 witness: the second payload of a display_update for key 2 failed after
\* the first was written; the mirror has the icon.
C17_Witness ==
    /\ call.op = "display_update" /\ call.display /\ call.fail = 2
    /\ ret.exc = "IOError" /\ Len(devlog) = 1
    /\ LogicalIndex(call.key) = 2 /\ display_status.contents[2] = call.icon.contents

\* C18: a step of display_icon, reset, set_brightness, key_remap, button_getch,
\* button_empty, button_listen_key or button_listen_count leaves every entry of
\* the mirror as it was, and a display_update for logical key k leaves the
\* entries of every other key as they were.
C18_OnlyUpdateWritesMirror ==
    [][/\ (call'.op \in {"display_icon", "reset", "set_brightness", "key_remap",
                         "button_getch", "button_empty", "button_listen_key",
                         "button_listen_count"})
             => display_status' = display_status
       /\ (call'.op = "display_update")
             => /\ DOMAIN display_status'.label
                      \subseteq DOMAIN display_status.label \cup {LogicalIndex(call'.key)}
                /\ \A k \in DOMAIN display_status.label \ {LogicalIndex(call'.key)} :
                      /\ display_status'.label[k] = display_status.label[k]
                      /\ display_status'.contents[k] = display_status.contents[k]
                      /\ display_status'.ico[k] = display_status.ico[k]
      ]_vars

\* C18 witness: display_icon has pushed another icon to key 2 while the mirror
\* holds the text icon given earlier to display_update for that key.
C18_Witness ==
    /\ call.op = "display_icon" /\ ret.status = "returned" /\ Len(devlog) = 2
    /\ call.key = IntKey(2) /\ call.remap /\ call.icon.label = "solid"
    /\ display_status.label[2] = "text" /\ display_status.contents[2] = "A"

\* C19: the first report a button_getch decodes as the press has a pressed key
\* position, whatever came before it, a drain by button_empty while a key was
\* held included: button_getch does not fail on an all-released report, and the
\* key it returns is one of 1..15.
C19_GetchDecodesPress ==
    /\ frame.reads >= 1 => Pressed(frame.first) # {}
    /\ ret.exc # "IndexError"
    /\ (call.op = "button_getch" /\ ret.status = "returned") => ret.val \in 1..NUM_KEYS

====
